---- MODULE Spec2Model ----
(***************************************************************************)
(* Model of the auto-approval bot of src/main.py: the users table, the     *)
(* per-user "broadcast" flag of context.user_data, and the four handlers   *)
(* (start, handle_join_request, admin_buttons, broadcast) as coroutines    *)
(* that suspend at every awaited transport call.  A transport call returns *)
(* "ok" or raises Forbidden or another TelegramError.                      *)
(***************************************************************************)
EXTENDS Integers, Sequences, FiniteSets, TLC

\* ------------------------------------------------------------------------
\* Bounds
\* ------------------------------------------------------------------------
MaxUser == 2
MaxInFlight == 2
MaxUpdates == 4
\* updates received when handlers interleave (two passes and a purge need five)
MaxConcurrentUpdates == 5

\* ------------------------------------------------------------------------
\* Configuration and value domains
\* ------------------------------------------------------------------------
ADMIN_ID == 1

UserIds == 1..MaxUser
\* the (username, first_name) pairs an update's user may carry
Profiles == {<<"ann", "Ann">>, <<"bob", "Bob">>}
Outcomes == {"ok", "Forbidden", "TelegramError"}
\* query.data: the two buttons of the panel, and any other payload
CallbackData == {"broadcast", "clean_db", "other"}
Slots == 1..MaxInFlight

\* ------------------------------------------------------------------------
\* The users table: a set of rows.  (last_seen is written but never read by
\* the program and is left out.)
\* ------------------------------------------------------------------------
Row(u, n, f, b) == [user_id |-> u, username |-> n, first_name |-> f, is_blocked |-> b]

\* (variant: INSERT OR IGNORE, an existing row is kept as it is)
add_or_update_user_ignore(T, u, n, f) ==
    IF \E r \in T : r.user_id = u THEN T ELSE T \cup {Row(u, n, f, 0)}

\* (variant: an existing row gets the new names and keeps its is_blocked)
add_or_update_user_keepflag(T, u, n, f) ==
    {r \in T : r.user_id # u} \cup
        {Row(u, n, f, IF \E r \in T : r.user_id = u /\ r.is_blocked = 1 THEN 1 ELSE 0)}

\* INSERT OR REPLACE ... VALUES (?, ?, ?, CURRENT_TIMESTAMP, 0)
add_or_update_user(T, u, n, f) ==
    {r \in T : r.user_id # u} \cup {Row(u, n, f, 0)}

\* SELECT user_id FROM users WHERE is_blocked = 0  (the identifiers; the row
\* order of a SELECT without ORDER BY is chosen by the caller below)
ActiveIds(T) == {r.user_id : r \in {x \in T : x.is_blocked = 0}}

\* (variant: the UPDATE matches no row)
block_user_noop(T, u) == T

\* (variant: DELETE FROM users WHERE user_id = ?)
block_user_delete(T, u) == {r \in T : r.user_id # u}

\* (variant: an identifier without a row gets a row with is_blocked = 1)
block_user_insert(T, u) ==
    IF \E r \in T : r.user_id = u
    THEN {IF r.user_id = u THEN [r EXCEPT !.is_blocked = 1] ELSE r : r \in T}
    ELSE T \cup {Row(u, "", "", 1)}

\* UPDATE users SET is_blocked = 1 WHERE user_id = ?
block_user(T, u) ==
    {IF r.user_id = u THEN [r EXCEPT !.is_blocked = 1] ELSE r : r \in T}

\* (variant: DELETE FROM users, without the WHERE clause)
clean_blocked_all(T) ==
    [table |-> {}, deleted |-> Cardinality(T)]

\* DELETE FROM users WHERE is_blocked = 1; return cur.rowcount
clean_blocked(T) ==
    [table   |-> {r \in T : r.is_blocked # 1},
     deleted |-> Cardinality({r \in T : r.is_blocked = 1})]

\* (variant: the second count selects is_blocked = 1)
get_stats_swapped(T) ==
    LET total  == Cardinality(T)
        active == Cardinality({r \in T : r.is_blocked = 1})
    IN  <<total, active, total - active>>

\* total, active, blocked = total - active
get_stats(T) ==
    LET total  == Cardinality(T)
        active == Cardinality({r \in T : r.is_blocked = 0})
    IN  <<total, active, total - active>>

\* ------------------------------------------------------------------------
\* Messages and updates
\* ------------------------------------------------------------------------
Texts == {"None", "/start", "hi"}
Captions == {"None", "cap"}

\* A text message carries no media and no caption; a caption needs a media.
Msgs ==
    {m \in [text : Texts, caption : Captions,
            photo : BOOLEAN, video : BOOLEAN, document : BOOLEAN] :
        /\ (m.text # "None") => (~m.photo /\ ~m.video /\ ~m.document /\ m.caption = "None")
        /\ (m.caption # "None") => (m.photo \/ m.video \/ m.document)}

StartMsg == [text |-> "/start", caption |-> "None",
             photo |-> FALSE, video |-> FALSE, document |-> FALSE]
NoMsg == [text |-> "None", caption |-> "None",
          photo |-> FALSE, video |-> FALSE, document |-> FALSE]

\* (variant: the generic message handler is registered first)
HandlerForGenericFirst(kind, m) ==
    IF kind = "message" THEN "broadcast"
    ELSE IF kind = "chat_join_request" THEN "handle_join_request"
    ELSE "admin_buttons"

\* The handlers are registered in one group; the first one whose filter
\* matches handles the update:  CommandHandler("start"), ChatJoinRequestHandler,
\* CallbackQueryHandler, MessageHandler(filters.ALL).
HandlerFor(kind, m) ==
    IF kind = "message" /\ m.text = "/start" THEN "start"
    ELSE IF kind = "chat_join_request" THEN "handle_join_request"
    ELSE IF kind = "callback_query" THEN "admin_buttons"
    ELSE "broadcast"

\* text = msg.text or msg.caption or ""
TextOf(m) ==
    IF m.text # "None" THEN m.text
    ELSE IF m.caption # "None" THEN m.caption
    ELSE ""

\* (variant: the video branch is tested before the photo branch)
SendOpVideoFirst(m) ==
    IF m.video THEN "send_video"
    ELSE IF m.photo THEN "send_photo"
    ELSE IF m.document THEN "send_document"
    ELSE "send_message"

\* the send operation chosen for one recipient
SendOp(m) ==
    IF m.photo THEN "send_photo"
    ELSE IF m.video THEN "send_video"
    ELSE IF m.document THEN "send_document"
    ELSE "send_message"

\* (variant: SELECT user_id FROM users, without the WHERE clause)
get_all_users(T) ==
    LET S == {r.user_id : r \in T}
    IN  {q \in [1..Cardinality(S) -> S] : \A i, j \in DOMAIN q : q[i] = q[j] => i = j}

\* users = [row[0] for row in cur.fetchall()]: the active identifiers in some
\* row order
get_active_users(T) ==
    LET S == ActiveIds(T)
    IN  {q \in [1..Cardinality(S) -> S] : \A i, j \in DOMAIN q : q[i] = q[j] => i = j}

\* ------------------------------------------------------------------------
\* State
\* ------------------------------------------------------------------------
VARIABLES
    users,      \* the users table
    user_data,  \* context.user_data[u]["broadcast"], per user
    tasks,      \* the handler coroutines in flight, one per slot
    updates,    \* number of updates received so far
    concurrent_updates  \* the Application's setting: may updates be processed concurrently

vars == <<users, user_data, tasks, updates, concurrent_updates>>

IdleTask ==
    [handler |-> "none", pc |-> "idle", user |-> 0,
     username |-> "", first_name |-> "", data |-> "", msg |-> NoMsg,
     users |-> <<>>, i |-> 0, success |-> 0, failed |-> 0, deleted |-> 0,
     panel |-> <<>>, raised |-> FALSE, logged |-> "",
     \* history of the run, not read by the handlers
     before |-> "", approvals |-> 0, approved |-> FALSE,
     log |-> <<>>, blocked0 |-> 0, summaries |-> 0,
     state0 |-> [u \in UserIds |-> "absent"]]

NewTask(h, u, pc) == [IdleTask EXCEPT !.handler = h, !.user = u, !.pc = pc]

RowsOf(T, u) == {r \in T : r.user_id = u}
Blocked(T) == {r \in T : r.is_blocked = 1}
Active(T) == {r \in T : r.is_blocked = 0}

\* what the table held for u: "absent", "active" or "blocked"
StateOf(T, u) ==
    IF RowsOf(T, u) = {} THEN "absent"
    ELSE IF \E r \in RowsOf(T, u) : r.is_blocked = 1 THEN "blocked"
    ELSE "active"

\* (variant: the sender is not compared with ADMIN_ID)
IsAdminAnyone(u) == TRUE

\* user.id == ADMIN_ID
IsAdmin(u) == u = ADMIN_ID

\* The application takes the next update from its queue: at once when it
\* processes updates concurrently, else when the handler of the previous one
\* has returned.
CanReceive ==
    /\ updates < (IF concurrent_updates THEN MaxConcurrentUpdates ELSE MaxUpdates)
    /\ \E s \in Slots : tasks[s].pc = "idle"
    /\ concurrent_updates \/ \A s \in Slots : tasks[s].pc = "idle"

FreeSlot ==
    CHOOSE s \in Slots :
        tasks[s].pc = "idle" /\ \A t \in Slots : tasks[t].pc = "idle" => s <= t

\* The table survives restarts (CREATE TABLE IF NOT EXISTS): after main() has
\* run init_db it holds what earlier runs left, one row per user_id at most.
Tables ==
    {T \in SUBSET {Row(u, p[1], p[2], b) : u \in UserIds, p \in Profiles, b \in {0, 1}} :
        \A r, q \in T : r.user_id = q.user_id => r = q}

InitState ==
    /\ users \in Tables
    /\ user_data = [u \in UserIds |-> FALSE]
    /\ tasks = [s \in Slots |-> IdleTask]
    /\ updates = 0

\* Application.builder().token(BOT_TOKEN).build(): concurrent_updates is not
\* set, so the application processes one update at a time.
Init == InitState /\ concurrent_updates = FALSE

\* the one profile and the one broadcast message of the interleaved runs
AnnProfile == <<"ann", "Ann">>
HiMsg == [NoMsg EXCEPT !.text = "hi"]

\* The scheduling of spec section 5: handlers interleave at their awaits.
InitConcurrent ==
    /\ InitState
    /\ \A r \in users : <<r.username, r.first_name>> = AnnProfile
    /\ concurrent_updates = TRUE

\* ------------------------------------------------------------------------
\* start
\* ------------------------------------------------------------------------
start(u, n, f) ==
    /\ CanReceive
    /\ HandlerFor("message", StartMsg) = "start"
    /\ LET T == add_or_update_user(users, u, n, f)
       IN  /\ users' = T
           /\ tasks' = [tasks EXCEPT ![FreeSlot] =
                 [NewTask("start", u, "reply") EXCEPT
                     !.username = n, !.first_name = f, !.msg = StartMsg,
                     !.before = StateOf(users, u),
                     \* show_admin_panel: total, active, blocked = get_stats()
                     !.panel = IF IsAdmin(u) THEN get_stats(T) ELSE <<>>]]
    /\ updates' = updates + 1
    /\ UNCHANGED <<user_data, concurrent_updates>>

\* update.message.reply_text(...) returns or raises
start_reply_returns(s, o) ==
    /\ tasks[s].handler = "start" /\ tasks[s].pc = "reply"
    /\ tasks' = [tasks EXCEPT ![s].pc = "done", ![s].raised = (o # "ok")]
    /\ UNCHANGED <<users, user_data, updates, concurrent_updates>>

\* ------------------------------------------------------------------------
\* handle_join_request
\* ------------------------------------------------------------------------
handle_join_request(u, n, f) ==
    /\ CanReceive
    /\ HandlerFor("chat_join_request", NoMsg) = "handle_join_request"
    /\ tasks' = [tasks EXCEPT ![FreeSlot] =
                    [NewTask("handle_join_request", u, "approve") EXCEPT
                        !.username = n, !.first_name = f, !.approvals = 1]]
    /\ updates' = updates + 1
    /\ UNCHANGED <<users, user_data, concurrent_updates>>

\* approve_chat_join_request returns or raises
join_approve_returns(s, o) ==
    /\ tasks[s].handler = "handle_join_request" /\ tasks[s].pc = "approve"
    /\ IF o = "ok"
       THEN /\ users' = add_or_update_user(users, tasks[s].user,
                                           tasks[s].username, tasks[s].first_name)
            /\ tasks' = [tasks EXCEPT ![s].pc = "welcome", ![s].approved = TRUE,
                                      ![s].before = StateOf(users, tasks[s].user)]
       ELSE \* except TelegramError as e: logger.error(...)
            /\ tasks' = [tasks EXCEPT ![s].pc = "done", ![s].logged = "error"]
            /\ UNCHANGED users
    /\ UNCHANGED <<user_data, updates, concurrent_updates>>

\* How a failed welcome leaves the handler: except Forbidden logs at info
\* level, any other TelegramError reaches the outer except and is logged as
\* an error; neither propagates.
\* (variant: without the outer except TelegramError)
WelcomeRaisesUncaught(o) == o = "TelegramError"

WelcomeRaises(o) == FALSE
WelcomeLogged(o) ==
    IF o = "ok" THEN "" ELSE IF o = "Forbidden" THEN "info" ELSE "error"

\* send_message(chat_id=user.id, text=welcome, ...) returns or raises
join_welcome_returns(s, o) ==
    /\ tasks[s].handler = "handle_join_request" /\ tasks[s].pc = "welcome"
    /\ tasks' = [tasks EXCEPT ![s].pc = "done",
                              ![s].raised = WelcomeRaises(o),
                              ![s].logged = WelcomeLogged(o)]
    /\ UNCHANGED <<users, user_data, updates, concurrent_updates>>

\* ------------------------------------------------------------------------
\* admin_buttons
\* ------------------------------------------------------------------------
admin_buttons(u, d) ==
    /\ CanReceive
    /\ HandlerFor("callback_query", NoMsg) = "admin_buttons"
    /\ tasks' = [tasks EXCEPT ![FreeSlot] =
                    [NewTask("admin_buttons", u, "answer") EXCEPT !.data = d]]
    /\ updates' = updates + 1
    /\ UNCHANGED <<users, user_data, concurrent_updates>>

\* query.answer() returns or raises
buttons_answer_returns(s, o) ==
    /\ tasks[s].handler = "admin_buttons" /\ tasks[s].pc = "answer"
    /\ IF o # "ok"
       THEN /\ tasks' = [tasks EXCEPT ![s].pc = "done", ![s].raised = TRUE]
            /\ UNCHANGED users
       ELSE IF ~IsAdmin(tasks[s].user)
       THEN /\ tasks' = [tasks EXCEPT ![s].pc = "deny"]
            /\ UNCHANGED users
       ELSE IF tasks[s].data = "broadcast"
       THEN /\ tasks' = [tasks EXCEPT ![s].pc = "edit_broadcast"]
            /\ UNCHANGED users
       ELSE IF tasks[s].data = "clean_db"
       THEN LET c == clean_blocked(users)
            IN  /\ users' = c.table
                /\ tasks' = [tasks EXCEPT ![s].pc = "edit_clean",
                                          ![s].deleted = c.deleted]
       ELSE /\ tasks' = [tasks EXCEPT ![s].pc = "done"]
            /\ UNCHANGED users
    /\ UNCHANGED <<user_data, updates, concurrent_updates>>

\* query.answer("Not allowed!", show_alert=True) returns or raises
buttons_deny_returns(s, o) ==
    /\ tasks[s].handler = "admin_buttons" /\ tasks[s].pc = "deny"
    /\ tasks' = [tasks EXCEPT ![s].pc = "done", ![s].raised = (o # "ok")]
    /\ UNCHANGED <<users, user_data, updates, concurrent_updates>>

\* query.edit_message_text(...) returns or raises; after the prompt of
\* "broadcast": context.user_data["broadcast"] = True
buttons_edit_returns(s, o) ==
    /\ tasks[s].handler = "admin_buttons"
    /\ tasks[s].pc \in {"edit_broadcast", "edit_clean"}
    /\ tasks' = [tasks EXCEPT ![s].pc = "done", ![s].raised = (o # "ok")]
    /\ user_data' = IF tasks[s].pc = "edit_broadcast" /\ o = "ok"
                    THEN [user_data EXCEPT ![tasks[s].user] = TRUE]
                    ELSE user_data
    /\ UNCHANGED <<users, updates, concurrent_updates>>

\* ------------------------------------------------------------------------
\* broadcast
\* ------------------------------------------------------------------------
\* (variant: the handler returns at the end of the loop, without the summary)
AfterLoopNoSummary(t) ==
    IF t.i > Len(t.users)
    THEN [t EXCEPT !.pc = "done"]
    ELSE [t EXCEPT !.pc = "send"]

\* (variant: a failed delivery ends the loop)
AfterLoopBreakOnError(t) ==
    IF t.i > Len(t.users) \/ (t.log # <<>> /\ t.log[Len(t.log)].outcome # "ok")
    THEN [t EXCEPT !.pc = "summary", !.summaries = @ + 1]
    ELSE [t EXCEPT !.pc = "send"]

\* The call of the summary reply once the loop is over.
AfterLoop(t) ==
    IF t.i > Len(t.users)
    THEN [t EXCEPT !.pc = "summary", !.summaries = @ + 1]
    ELSE [t EXCEPT !.pc = "send"]

\* (variant: the flag is left as it is)
BroadcastFlagKept == TRUE

\* context.user_data["broadcast"] = False, before the recipients are fetched
BroadcastFlagAfterCapture == FALSE

broadcast(u, m) ==
    /\ CanReceive
    /\ HandlerFor("message", m) = "broadcast"
    /\ IF ~IsAdmin(u) \/ ~user_data[u]
       THEN /\ tasks' = [tasks EXCEPT ![FreeSlot] =
                            [NewTask("broadcast", u, "done") EXCEPT !.msg = m]]
            /\ UNCHANGED user_data
       ELSE /\ user_data' = [user_data EXCEPT ![u] = BroadcastFlagAfterCapture]
            /\ \E q \in get_active_users(users) :
                  tasks' = [tasks EXCEPT ![FreeSlot] =
                      AfterLoop([NewTask("broadcast", u, "send") EXCEPT
                          !.msg = m, !.users = q, !.i = 1,
                          !.blocked0 = Cardinality(Blocked(users)),
                          !.state0 = [x \in UserIds |-> StateOf(users, x)]])]
    /\ updates' = updates + 1
    /\ UNCHANGED <<users, concurrent_updates>>

\* (variant: block_user in both except clauses)
StoreAfterSendAnyError(T, user_id, o) ==
    IF o # "ok" THEN block_user(T, user_id) ELSE T

\* except Forbidden: block_user(user_id); any other outcome leaves the table
StoreAfterSend(T, user_id, o) ==
    IF o = "Forbidden" THEN block_user(T, user_id) ELSE T

\* (variant: a recipient whose delivery failed is tried again)
NextIndexRetry(i, o) == IF o = "ok" THEN i + 1 ELSE i

\* for user_id in users: the next recipient, whatever the outcome
NextIndex(i, o) == i + 1

\* the send_* call for users[i] returns or raises
broadcast_send_returns(s, o) ==
    /\ tasks[s].handler = "broadcast" /\ tasks[s].pc = "send"
    /\ LET t       == tasks[s]
           user_id == t.users[t.i]
           \* (was: what the table held for the recipient at this moment)
           entry   == [to |-> user_id, op |-> SendOp(t.msg),
                       text |-> TextOf(t.msg), outcome |-> o,
                       was |-> StateOf(users, user_id)]
       IN  /\ users' = StoreAfterSend(users, user_id, o)
           /\ tasks' = [tasks EXCEPT ![s] =
                 AfterLoop([t EXCEPT !.success = IF o = "ok" THEN @ + 1 ELSE @,
                                     !.failed  = IF o = "ok" THEN @ ELSE @ + 1,
                                     !.log     = Append(@, entry),
                                     !.i       = NextIndex(@, o)])]
    /\ UNCHANGED <<user_data, updates, concurrent_updates>>

\* update.message.reply_text("Broadcast done! ...") returns or raises
broadcast_summary_returns(s, o) ==
    /\ tasks[s].handler = "broadcast" /\ tasks[s].pc = "summary"
    /\ tasks' = [tasks EXCEPT ![s].pc = "done", ![s].raised = (o # "ok")]
    /\ UNCHANGED <<users, user_data, updates, concurrent_updates>>

\* ------------------------------------------------------------------------
\* The application has finished processing an update.
\* ------------------------------------------------------------------------
Reap(s) ==
    /\ tasks[s].pc = "done"
    /\ tasks' = [tasks EXCEPT ![s] = IdleTask]
    /\ UNCHANGED <<users, user_data, updates, concurrent_updates>>

Next ==
    \/ \E u \in UserIds, p \in Profiles : start(u, p[1], p[2])
    \/ \E u \in UserIds, p \in Profiles : handle_join_request(u, p[1], p[2])
    \/ \E u \in UserIds, d \in CallbackData : admin_buttons(u, d)
    \/ \E u \in UserIds, m \in Msgs : broadcast(u, m)
    \/ \E s \in Slots, o \in Outcomes :
          \/ start_reply_returns(s, o)
          \/ join_approve_returns(s, o)
          \/ join_welcome_returns(s, o)
          \/ buttons_answer_returns(s, o)
          \/ buttons_deny_returns(s, o)
          \/ buttons_edit_returns(s, o)
          \/ broadcast_send_returns(s, o)
          \/ broadcast_summary_returns(s, o)
    \/ \E s \in Slots : Reap(s)

Spec == Init /\ [][Next]_vars

\* The handlers of Next with their inputs narrowed to what interleaving is
\* about: any user starts or asks to join, the admin presses either button and
\* sends the message to broadcast.
NextConcurrent ==
    \/ \E u \in UserIds : start(u, AnnProfile[1], AnnProfile[2])
    \/ \E u \in UserIds : handle_join_request(u, AnnProfile[1], AnnProfile[2])
    \/ \E d \in {"broadcast", "clean_db"} : admin_buttons(ADMIN_ID, d)
    \/ broadcast(ADMIN_ID, HiMsg)
    \/ \E s \in Slots, o \in Outcomes :
          \/ start_reply_returns(s, o)
          \/ join_approve_returns(s, o)
          \/ join_welcome_returns(s, o)
          \/ buttons_answer_returns(s, o)
          \/ buttons_edit_returns(s, o)
          \/ broadcast_send_returns(s, o)
          \/ broadcast_summary_returns(s, o)
    \/ \E s \in Slots : Reap(s)

SpecConcurrent == InitConcurrent /\ [][NextConcurrent]_vars

\* Every awaited call of a pass returns or raises in the end: the event loop
\* resumes the coroutine of each slot when its send_* or its reply_text is over.
TransportReturns ==
    \A s \in Slots :
        /\ WF_vars(\E o \in Outcomes : broadcast_send_returns(s, o))
        /\ WF_vars(\E o \in Outcomes : broadcast_summary_returns(s, o))

SpecFair == Spec /\ TransportReturns

SpecConcurrentFair == SpecConcurrent /\ TransportReturns

\* ------------------------------------------------------------------------
\* Properties
\* ------------------------------------------------------------------------
IsPass(t) == t.handler = "broadcast" /\ t.i >= 1

\* the step in which the handler of slot s runs add_or_update_user
Upserts(s) ==
    \/ tasks[s].pc = "idle" /\ tasks'[s].handler = "start"
    \/ tasks[s].pc = "approve" /\ tasks'[s].pc = "welcome"

\* the step in which the handler of slot s runs clean_blocked
Purges(s) ==
    tasks[s].pc = "answer" /\ tasks'[s].pc = "edit_clean"

\* C1: an upsert leaves exactly one row for its user, with the username and
\* first_name of this upsert and is_blocked = 0, whatever the table held
\* before; no step leaves two rows for one user, and a step that is no upsert
\* for a user changes neither name of that user's row.
C1_UpsertReplaces ==
    [][ /\ \A s \in Slots : Upserts(s) =>
              RowsOf(users', tasks'[s].user) =
                  {Row(tasks'[s].user, tasks'[s].username, tasks'[s].first_name, 0)}
        /\ \A u \in UserIds : Cardinality(RowsOf(users', u)) <= 1
        /\ \A q \in users' :
              (\A s \in Slots : ~(Upserts(s) /\ tasks'[s].user = q.user_id)) =>
                  \E r \in users : /\ r.user_id = q.user_id
                                   /\ r.username = q.username
                                   /\ r.first_name = q.first_name
      ]_vars

\* C1 witness: a start has just replaced the row of a user that was blocked.
C1_Witness ==
    \E s \in Slots :
        /\ tasks[s].handler = "start" /\ tasks[s].pc = "reply"
        /\ tasks[s].before = "blocked"
        /\ updates >= 2
        /\ RowsOf(users, tasks[s].user) =
               {Row(tasks[s].user, tasks[s].username, tasks[s].first_name, 0)}

\* C2: the purge step deletes exactly the rows with is_blocked = 1, returns
\* their number, keeps every other row, and get_stats right after it gives
\* blocked = 0 and total = active = the number of active rows before.
C2_PurgeExact ==
    [][ \A s \in Slots : Purges(s) =>
            /\ users' = Active(users)
            /\ tasks'[s].deleted = Cardinality(Blocked(users))
            /\ get_stats(users') =
                   <<Cardinality(Active(users)), Cardinality(Active(users)), 0>>
      ]_vars

\* C2 witness: a purge by the admin has deleted a blocked row and kept an
\* active one.
C2_Witness ==
    \E s \in Slots :
        /\ tasks[s].handler = "admin_buttons" /\ tasks[s].pc = "edit_clean"
        /\ tasks[s].user = ADMIN_ID
        /\ tasks[s].deleted >= 1
        /\ users # {} /\ Blocked(users) = {}

\* C3: get_stats returns the number of rows, of rows with is_blocked = 0 and
\* of rows with is_blocked = 1, the first being the sum of the other two; so
\* does the panel that start shows to the admin.
C3_StatsSum ==
    LET st == get_stats(users)
    IN  /\ st = <<Cardinality(users), Cardinality(Active(users)),
                  Cardinality(Blocked(users))>>
        /\ st[1] = st[2] + st[3]
        /\ \A s \in Slots :
              (tasks[s].handler = "start" /\ tasks[s].panel # <<>>
                  /\ ~concurrent_updates) =>
                 /\ tasks[s].panel = st
                 /\ tasks[s].panel[1] = tasks[s].panel[2] + tasks[s].panel[3]

\* C3 witness: the panel shows one active and one blocked user.
C3_Witness ==
    \E s \in Slots :
        /\ tasks[s].handler = "start" /\ tasks[s].pc = "reply"
        /\ tasks[s].panel = <<2, 1, 1>>

\* the number of deliveries of a pass that ended with the given outcomes
CountOutcome(log, O) == Cardinality({k \in DOMAIN log : log[k].outcome \in O})

\* the recipients of the attempts made so far, in order
Recipients(log) == [k \in DOMAIN log |-> log[k].to]

PassOver(t) == IsPass(t) /\ t.pc \in {"summary", "done"}

\* C4: when a pass over the fetched active users is over, with K of its
\* deliveries failed as Forbidden, the table holds exactly K more rows with
\* is_blocked = 1 than when the pass fetched its recipients, and the failure
\* count of the summary is at least K.
C4_BlockedGrowsByK ==
    \A s \in Slots :
        PassOver(tasks[s]) =>
            LET K == CountOutcome(tasks[s].log, {"Forbidden"})
            IN  /\ Cardinality(Blocked(users)) = tasks[s].blocked0 + K
                /\ tasks[s].failed >= K

\* C4 witness: a pass over two users is over, one delivery failed as Forbidden
\* and the other with another error.
C4_Witness ==
    \E s \in Slots :
        /\ PassOver(tasks[s])
        /\ Len(tasks[s].users) = 2
        /\ CountOutcome(tasks[s].log, {"Forbidden"}) = 1
        /\ CountOutcome(tasks[s].log, {"TelegramError"}) = 1
        /\ tasks[s].failed = 2
        /\ Cardinality(Blocked(users)) = tasks[s].blocked0 + 1

\* C5: the flag of a sender other than the admin is never set, no pass and no
\* purge runs for such a sender, and a step of the admin_buttons or broadcast
\* handler of such a sender changes neither the table nor any flag and
\* attempts no delivery.
C5_NonAdminInert ==
    [][ /\ \A u \in UserIds \ {ADMIN_ID} : ~user_data'[u]
        /\ \A s \in Slots :
              ( /\ tasks'[s].user # ADMIN_ID
                /\ tasks'[s].handler \in {"admin_buttons", "broadcast"} ) =>
                 /\ ~IsPass(tasks'[s])
                 /\ tasks'[s].log = <<>>
                 /\ tasks'[s].pc \notin {"edit_clean", "edit_broadcast", "send", "summary"}
                 /\ tasks'[s].deleted = 0
                 /\ (tasks'[s] # tasks[s] => (users' = users /\ user_data' = user_data))
      ]_vars

\* C5 witness: the admin has pressed "broadcast" and a message of another
\* sender has been handled without effect.
C5_Witness ==
    \E s \in Slots :
        /\ tasks[s].handler = "broadcast" /\ tasks[s].pc = "done"
        /\ tasks[s].user # ADMIN_ID
        /\ tasks[s].log = <<>>
        /\ user_data[ADMIN_ID]

\* C6: the attempts of a pass go to its fetched recipients in order, one
\* each; the summary is sent once, after the last attempt and not before,
\* with succeeded = the attempts that returned and failed = the attempts
\* that raised, the two adding up to the number of fetched recipients.
C6_OneAttemptEach ==
    \A s \in Slots :
        IsPass(tasks[s]) =>
            LET t == tasks[s]
            IN  /\ Recipients(t.log) = SubSeq(t.users, 1, Len(t.log))
                /\ t.success = CountOutcome(t.log, {"ok"})
                /\ t.failed = CountOutcome(t.log, {"Forbidden", "TelegramError"})
                /\ t.pc = "send" => (t.summaries = 0 /\ Len(t.log) < Len(t.users))
                /\ PassOver(t) =>
                      /\ t.summaries = 1
                      /\ Recipients(t.log) = t.users
                      /\ t.success + t.failed = Len(t.users)

\* C6 witness: the pass over users 1 and 2 in which the delivery to 2 fails as
\* Forbidden: succeeded = 1, failed = 1, user 2 blocked.
C6_Witness ==
    \E s \in Slots :
        /\ PassOver(tasks[s])
        /\ tasks[s].users = <<1, 2>>
        /\ tasks[s].log[1].outcome = "ok"
        /\ tasks[s].log[2].outcome = "Forbidden"
        /\ tasks[s].success = 1 /\ tasks[s].failed = 1
        /\ StateOf(users, 2) = "blocked"

\* the step in which an update reaches the handler of slot s
Arrives(s) == tasks[s].pc = "idle" /\ tasks'[s].pc # "idle"

\* ... and the update is a message of the admin
AdminMessage(s) ==
    /\ Arrives(s)
    /\ tasks'[s].user = ADMIN_ID
    /\ tasks'[s].handler \in {"start", "broadcast"}

\* the step in which the admin's press of "broadcast" ends without an error
PressCompletes(s) ==
    /\ tasks[s].handler = "admin_buttons" /\ tasks[s].user = ADMIN_ID
    /\ tasks[s].pc = "edit_broadcast"
    /\ tasks'[s].pc = "done" /\ ~tasks'[s].raised

\* the step in which a message becomes the payload of a pass
Captures(s) ==
    /\ Arrives(s)
    /\ IsPass(tasks'[s])
    /\ tasks'[s].log = <<>>
    /\ ~user_data'[ADMIN_ID]

\* C7 as stated: the flag starts false, a completed press of "broadcast" by
\* the admin sets it, EVERY message the admin sends while it is set becomes
\* the payload of a pass, and the flag is false again right after the
\* capture, before any delivery, and stays so through the deliveries.
C7_AnyNextMessageCaptured ==
    [][ /\ updates = 0 => ~user_data[ADMIN_ID]
        /\ \A s \in Slots :
              /\ PressCompletes(s) => user_data'[ADMIN_ID]
              /\ (user_data[ADMIN_ID] /\ AdminMessage(s)) => Captures(s)
              /\ (tasks[s].handler = "broadcast" /\ tasks[s].pc \in {"send", "summary"}
                     /\ tasks'[s] # tasks[s]) => user_data' = user_data
      ]_vars

\* C7 amended: as above, but the message captured is the next message of the
\* admin that is not the start command: a start command sent while the flag
\* is set goes to the start handler and leaves the flag set; the flag rises
\* only by a press of "broadcast" by the admin whose answer and prompt edit
\* both returned, and falls only by a capture.
C7_NextNonStartMessageCaptured ==
    [][ /\ updates = 0 => ~user_data[ADMIN_ID]
        /\ \A s \in Slots :
              /\ PressCompletes(s) => user_data'[ADMIN_ID]
              /\ (user_data[ADMIN_ID] /\ AdminMessage(s)) =>
                    IF tasks'[s].msg.text = "/start"
                    THEN /\ tasks'[s].handler = "start"
                         /\ user_data'[ADMIN_ID]
                    ELSE Captures(s)
              /\ (tasks[s].handler = "broadcast" /\ tasks[s].pc \in {"send", "summary"}
                     /\ tasks'[s] # tasks[s]) => user_data' = user_data
        /\ (~user_data[ADMIN_ID] /\ user_data'[ADMIN_ID]) =>
              \E s \in Slots : PressCompletes(s)
        /\ (user_data[ADMIN_ID] /\ ~user_data'[ADMIN_ID]) =>
              \E s \in Slots : Captures(s) /\ tasks'[s].msg.text # "/start"
      ]_vars

\* C7 witness: a message of the admin has just been captured: the flag is
\* false again and no delivery has returned yet.
C7_Witness ==
    \E s \in Slots :
        /\ IsPass(tasks[s]) /\ tasks[s].pc = "send"
        /\ tasks[s].user = ADMIN_ID
        /\ tasks[s].log = <<>>
        /\ ~user_data[ADMIN_ID]

\* C8: a join request calls approve once, whatever approve and the welcome
\* do; no outcome of the welcome raises out of the handler, and once approve
\* has returned the user's row is the upserted one whether or not the welcome
\* is delivered.
C8_ApproveOnceWelcomeBestEffort ==
    \A s \in Slots :
        tasks[s].handler = "handle_join_request" =>
            /\ tasks[s].approvals = 1
            /\ ~tasks[s].raised
            /\ tasks[s].pc = "welcome" => tasks[s].approved
            /\ (tasks[s].approved /\ ~concurrent_updates) =>
                  RowsOf(users, tasks[s].user) =
                      {Row(tasks[s].user, tasks[s].username, tasks[s].first_name, 0)}

\* C8 witness: the handler is over, approve returned and the welcome failed
\* with an error other than Forbidden.
C8_Witness ==
    \E s \in Slots :
        /\ tasks[s].handler = "handle_join_request" /\ tasks[s].pc = "done"
        /\ tasks[s].approved /\ tasks[s].approvals = 1
        /\ tasks[s].logged = "error"
        /\ ~tasks[s].raised
        /\ StateOf(users, tasks[s].user) = "active"

\* C9 as stated: when a start or a join-request handler is over, the table
\* holds a row of its user with is_blocked = 0, whatever the transport did.
C9_EveryInteractionUpserts ==
    \A s \in Slots :
        (tasks[s].handler \in {"start", "handle_join_request"} /\ tasks[s].pc = "done"
            /\ ~concurrent_updates) =>
           StateOf(users, tasks[s].user) = "active"

\* C9 amended: this holds of every start and of every join request whose
\* approve call returned; a join request whose approve call raised leaves
\* the table as it was.
C9_UpsertUnlessApproveFails ==
    [][ \A s \in Slots :
           /\ ( /\ tasks'[s].pc = "done"
                /\ ~concurrent_updates
                /\ \/ tasks'[s].handler = "start"
                   \/ tasks'[s].handler = "handle_join_request" /\ tasks'[s].approved ) =>
                 StateOf(users', tasks'[s].user) = "active"
           /\ Upserts(s) => StateOf(users', tasks'[s].user) = "active"
           /\ ( /\ tasks[s].handler = "handle_join_request" /\ tasks[s].pc = "approve"
                /\ tasks'[s].pc = "done" ) => users' = users
      ]_vars

\* C9 witness: a join request of a blocked user is over, its welcome failed
\* as Forbidden, and the user's row is active.
C9_Witness ==
    \E s \in Slots :
        /\ tasks[s].handler = "handle_join_request" /\ tasks[s].pc = "done"
        /\ tasks[s].approved /\ tasks[s].before = "blocked"
        /\ tasks[s].logged = "info"
        /\ StateOf(users, tasks[s].user) = "active"

\* C10: a row gets is_blocked = 1 only in the step in which the delivery of a
\* pass to that very user raises Forbidden.
C10_BlockedOnlyByForbidden ==
    [][ \A u \in UserIds :
           (StateOf(users, u) # "blocked" /\ StateOf(users', u) = "blocked") =>
              \E s \in Slots :
                 /\ tasks[s].handler = "broadcast" /\ tasks[s].pc = "send"
                 /\ tasks[s].users[tasks[s].i] = u
                 /\ Len(tasks'[s].log) = Len(tasks[s].log) + 1
                 /\ tasks'[s].log[Len(tasks'[s].log)].to = u
                 /\ tasks'[s].log[Len(tasks'[s].log)].outcome = "Forbidden"
      ]_vars

\* C10 witness: a delivery has failed with another error and left its user
\* active, and a later one has failed as Forbidden and blocked its user.
C10_Witness ==
    \E s \in Slots :
        /\ IsPass(tasks[s]) /\ Len(tasks[s].log) = 2
        /\ tasks[s].log[1].outcome = "TelegramError"
        /\ StateOf(users, tasks[s].log[1].to) = "active"
        /\ tasks[s].log[2].outcome = "Forbidden"
        /\ StateOf(users, tasks[s].log[2].to) = "blocked"

\* C11: no transport failure leaves a handler as an exception: whatever a
\* reply, an edit, an answer, an approve or a send does, the handler of every
\* slot completes without having raised.
C11_NoErrorEscapes ==
    \A s \in Slots : ~tasks[s].raised

\* the step in which a delivery of the pass of slot s returns or raises
Delivers(s) ==
    /\ tasks[s].handler = "broadcast" /\ tasks[s].pc = "send"
    /\ Len(tasks'[s].log) = Len(tasks[s].log) + 1

\* the outcome of that delivery
Delivered(s) == tasks'[s].log[Len(tasks'[s].log)].outcome

\* C12: a delivery that fails with an error other than Forbidden is counted
\* as failed and leaves the table as it was, its recipient still active; one
\* that fails as Forbidden is counted as failed and changes no row but its
\* recipient's; after either the pass goes on with the next fetched recipient,
\* or to the summary when there is none.
C12_FailedDeliveryPassContinues ==
    [][ \A s \in Slots : Delivers(s) =>
           LET t  == tasks[s]
               t2 == tasks'[s]
               u  == t.users[t.i]
           IN  /\ Delivered(s) = "TelegramError" =>
                     /\ users' = users
                     /\ ~concurrent_updates => StateOf(users', u) = "active"
               /\ Delivered(s) = "Forbidden" =>
                     /\ \A r \in users : r.user_id # u => r \in users'
                     /\ \A q \in users' : q.user_id # u => q \in users
                     /\ ~concurrent_updates => StateOf(users', u) = "blocked"
               /\ Delivered(s) # "ok" =>
                     /\ t2.failed = t.failed + 1 /\ t2.success = t.success
                     /\ t2.users = t.users /\ t2.i = t.i + 1
                     /\ t.i < Len(t.users) => t2.pc = "send"
                     /\ t.i = Len(t.users) => t2.pc = "summary"
      ]_vars

\* C12 witness: the first delivery of a pass failed with another error, its
\* recipient is still active, and the second delivery was made and returned.
C12_Witness ==
    \E s \in Slots :
        /\ PassOver(tasks[s]) /\ Len(tasks[s].log) = 2
        /\ tasks[s].log[1].outcome = "TelegramError"
        /\ tasks[s].log[2].outcome = "ok"
        /\ tasks[s].failed = 1 /\ tasks[s].success = 1
        /\ StateOf(users, tasks[s].log[1].to) = "active"

\* the identifiers that have a row
Ids(T) == {r.user_id : r \in T}

C15_SendByPrecedence ==
    \A s \in Slots :
        IsPass(tasks[s]) =>
            LET t == tasks[s]
                m == t.msg
            IN  /\ Len(t.log) <= Len(t.users)
                /\ \A k \in DOMAIN t.log :
                      /\ t.log[k].to = t.users[k]
                      /\ t.log[k].op \in {"send_photo", "send_video",
                                          "send_document", "send_message"}
                      /\ m.photo => t.log[k].op = "send_photo"
                      /\ (~m.photo /\ m.video) => t.log[k].op = "send_video"
                      /\ (~m.photo /\ ~m.video /\ m.document) =>
                            t.log[k].op = "send_document"
                      /\ (~m.photo /\ ~m.video /\ ~m.document) =>
                            t.log[k].op = "send_message"
                      /\ m.text # "None" => t.log[k].text = m.text
                      /\ (m.text = "None" /\ m.caption # "None") =>
                            t.log[k].text = m.caption
                      /\ (m.text = "None" /\ m.caption = "None") => t.log[k].text = ""

\* C15 witness: a captioned message with a photo, a video and a document has
\* been sent to two recipients as a photo with the caption as its text.
C15_Witness ==
    \E s \in Slots :
        /\ IsPass(tasks[s]) /\ Len(tasks[s].log) = 2
        /\ tasks[s].msg.photo /\ tasks[s].msg.video /\ tasks[s].msg.document
        /\ tasks[s].msg.caption = "cap"
        /\ \A k \in 1..2 : /\ tasks[s].log[k].op = "send_photo"
                           /\ tasks[s].log[k].text = "cap"

\* the step in which a pass starts in slot s
StartsPass(s) == ~IsPass(tasks[s]) /\ IsPass(tasks'[s])

Range(q) == {q[k] : k \in DOMAIN q}

PassStep(s) ==
    /\ tasks'[s] # tasks[s]
    /\ \/ StartsPass(s)
       \/ IsPass(tasks[s]) /\ tasks[s].pc \in {"send", "summary"}

\* C18: a step of a pass keeps the set of identifiers, every username and
\* first_name and the total of get_stats; the only row it changes is that of
\* the recipient of a delivery that failed as Forbidden, whose is_blocked goes
\* from 0 to 1; a delivery that returned leaves the table as it was; and when
\* a pass during which no other handler ran is over, the table holds the
\* identifiers it held at the capture.
C18_PassOnlyMarksBlocked ==
    [][ \A s \in Slots :
           /\ PassStep(s) =>
                 /\ Ids(users') = Ids(users)
                 /\ get_stats(users')[1] = get_stats(users)[1]
                 /\ \A r \in users : \E q \in users' :
                       /\ q.user_id = r.user_id
                       /\ q.username = r.username /\ q.first_name = r.first_name
                       /\ q.is_blocked >= r.is_blocked
                 /\ \A r \in users \ users' :
                       /\ Delivers(s) /\ Delivered(s) = "Forbidden"
                       /\ r.user_id = tasks[s].users[tasks[s].i]
                       /\ r.is_blocked = 0
                       /\ [r EXCEPT !.is_blocked = 1] \in users'
                 /\ (Delivers(s) /\ Delivered(s) = "ok") => users' = users
           /\ (PassOver(tasks'[s]) /\ ~concurrent_updates) =>
                 /\ Ids(users') = {u \in UserIds : tasks'[s].state0[u] # "absent"}
                 /\ get_stats(users')[1] =
                        Cardinality({u \in UserIds : tasks'[s].state0[u] # "absent"})
      ]_vars

\* C18 witness: a pass over Ann and Bob is over; the delivery to Ann returned
\* and her row is as it was, the delivery to Bob failed as Forbidden and his
\* row differs in is_blocked only.
C18_Witness ==
    \E s \in Slots :
        /\ PassOver(tasks[s]) /\ tasks[s].users = <<1, 2>>
        /\ tasks[s].log[1].outcome = "ok" /\ tasks[s].log[2].outcome = "Forbidden"
        /\ users = {Row(1, "ann", "Ann", 0), Row(2, "bob", "Bob", 1)}
        /\ get_stats(users) = <<2, 1, 1>>

====
